---- MODULE Spec2Model ----
(***************************************************************************)
(* State-machine model of the Z->ll event processor                        *)
(* (wprime_plus_b/processors/ztoll_processor.py) and of the lepton         *)
(* scale-factor correctors (wprime_plus_b/corrections/lepton.py).          *)
(*                                                                         *)
(* Units: lepton pt and eta are integers in thousandths (MeV, milli-eta),  *)
(* so that 10.0 is 10000 and 499.999 is 499999.  Pair masses, MET and jet  *)
(* pt are integers in GeV.  MET phi is a quadrant index 0..3 (units of     *)
(* pi/2, measured from the dilepton direction).  The transverse mass is    *)
(* carried as its square (sqrt is monotone, so mth < 60 is mth^2 < 3600).  *)
(* A missing value (awkward None) is the integer None.                     *)
(***************************************************************************)
EXTENDS Integers, Sequences, FiniteSets, TLC

\* ------------------------------------------------------------------ bounds
\* largest number of events in one chunk
MaxEvents == 2
\* largest number of corrector method calls made on one weight ledger
MaxCalls == 3
\* largest number of chunks handed to one ZToLLProcessor instance
MaxChunks == 3
\* largest number of partitions of a sample's file list
MaxPartitions == 4

\* awkward's None (a missing value)
None == 0 - 1

\* ------------------------------------------------------------ small helpers
RECURSIVE SumSeq(_)
SumSeq(s) == IF s = <<>> THEN 0 ELSE Head(s) + SumSeq(Tail(s))

RECURSIVE ProdSeq(_)
ProdSeq(s) == IF s = <<>> THEN 1 ELSE Head(s) * ProdSeq(Tail(s))

RECURSIVE FilterSeq(_, _)
\* array[mask]: the entries of s whose mask bit is TRUE, in order
FilterSeq(s, mask) ==
    IF s = <<>> THEN <<>>
    ELSE IF Head(mask) THEN <<Head(s)>> \o FilterSeq(Tail(s), Tail(mask))
         ELSE FilterSeq(Tail(s), Tail(mask))

\* the keys of a Python dict held as a sequence of [name, value] records
DictKeys(d) == {d[k].name : k \in 1..Len(d)}

DictGet(d, name) == d[CHOOSE k \in 1..Len(d) : d[k].name = name].value

\* d[name] = value, or {**d, name: value}: replaces in place, else appends
DictSet(d, name, value) ==
    IF name \in DictKeys(d)
    THEN [k \in 1..Len(d) |-> IF d[k].name = name
                               THEN [name |-> name, value |-> value] ELSE d[k]]
    ELSE Append(d, [name |-> name, value |-> value])

Abs(x) == IF x < 0 THEN 0 - x ELSE x

\* a clamp from below only
ClipBelow(x, lo, hi) == IF x < lo THEN lo ELSE x

\* numpy.clip(x, lo, hi)
Clip(x, lo, hi) == IF x < lo THEN lo ELSE IF x > hi THEN hi ELSE x

\* ------------------------------------------------------- the event content
Lep(pdg, pt, eta, isgood) ==
    [pdgId |-> pdg, pt |-> pt, eta |-> eta,
     charge |-> IF pdg > 0 THEN 0 - 1 ELSE 1, good |-> isgood]

Jet(pt, btag, near) == [pt |-> pt, mass |-> 5, btag |-> btag, nearLepton |-> near]

Pair(ptll, mll, dphill, drll) ==
    [ptll |-> ptll, mll |-> mll, dphill |-> dphill, drll |-> drll]

Ev(gw, npvs, ele, mu, pair, jet, metpt, metphi, hlt, flag, lumi) ==
    [genWeight |-> gw, npvsGood |-> npvs, Electron |-> ele, Muon |-> mu,
     Dilepton |-> pair, Jet |-> jet, MET |-> [pt |-> metpt, phi |-> metphi],
     HLT |-> hlt, Flag |-> flag, lumiOK |-> lumi]

\* names of the trigger bits and MET filter bits an event batch may carry
HLTNames == {"Ele32", "Photon200", "IsoMu27", "Mu50"}
FlagNames == {"goodVertices", "BadPFMuonFilter", "eeBadScFilter"}

EE == <<Lep(11, 45000, 500, TRUE), Lep(0 - 11, 38000, 0 - 1200, TRUE)>>
MM == <<Lep(13, 250000, 2500, TRUE), Lep(0 - 13, 20000, 0 - 300, TRUE)>>

\* The events chunks are built from.  Each one exercises one cut of the
\* regions (or passes all of them).
EventPool ==
    { \* passes every cut of both regions
      Ev(2, 1, EE, MM, Pair(20, 91, 3, 3), <<>>, 10, 0,
         {"Ele32", "IsoMu27"}, FlagNames, TRUE),
      \* passes every cut, negative generator weight, a light jet
      Ev(0 - 1, 1, EE, MM, Pair(35, 80, 2, 2), <<Jet(40, FALSE, FALSE)>>, 10, 3,
         {"Photon200", "Mu50"}, FlagNames, TRUE),
      \* no good primary vertex, zero generator weight
      Ev(0, 0, EE, MM, Pair(20, 91, 3, 3), <<>>, 10, 0,
         {"Ele32", "IsoMu27"}, FlagNames, TRUE),
      \* a single good lepton (the second fails the object selection)
      Ev(0 - 1, 1, <<Lep(11, 45000, 500, TRUE), Lep(0 - 11, 8000, 100, FALSE)>>,
         <<Lep(13, 30000, 100, TRUE)>>, Pair(20, 91, 3, 3), <<>>, 10, 0,
         {"Ele32", "IsoMu27"}, FlagNames, FALSE),
      \* same-sign pair outside the mass window
      Ev(3, 1, <<Lep(11, 45000, 500, TRUE), Lep(11, 600000, 0, TRUE)>>,
         <<Lep(13, 30000, 100, TRUE), Lep(13, 10000, 0 - 2600, TRUE)>>,
         Pair(20, 130, 1, 1), <<>>, 10, 0,
         {"Ele32", "IsoMu27"}, FlagNames, TRUE),
      \* a b-tagged jet just below the pt threshold before the jet corrections
      Ev(2, 1, EE, MM, Pair(20, 91, 3, 3), <<Jet(25, TRUE, FALSE)>>, 10, 0,
         {"Ele32", "IsoMu27"}, FlagNames, TRUE),
      \* large MET: the transverse-mass cut depends on the MET phi
      Ev(2, 1, EE, MM, Pair(20, 91, 3, 3), <<>>, 100, 0,
         {"Ele32", "IsoMu27"}, FlagNames, TRUE),
      \* no trigger bit set, one MET filter bit unset
      Ev(2, 1, EE, MM, Pair(20, 91, 3, 3), <<>>, 10, 0,
         {}, {"goodVertices", "eeBadScFilter"}, TRUE),
      \* passes every cut of both regions, zero generator weight
      Ev(0, 1, EE, MM, Pair(35, 80, 2, 2), <<>>, 10, 0,
         {"Ele32", "IsoMu27"}, FlagNames, TRUE) }

RECURSIVE SeqsUpTo(_, _)
\* all sequences over S of length at most n
SeqsUpTo(S, n) ==
    IF n = 0 THEN {<<>>}
    ELSE LET shorter == SeqsUpTo(S, n - 1)
         IN shorter \cup {Append(s, x) : s \in {t \in shorter : Len(t) = n - 1}, x \in S}

\* which trigger / filter branches the input files carry
FieldSets ==
    { [HLT |-> HLTNames, Flag |-> FlagNames],
      [HLT |-> {"Ele32", "IsoMu27"}, Flag |-> {"goodVertices", "eeBadScFilter"}] }

\* an event of a file that carries the branches f: it has no bit of a branch
\* the file lacks
Carried(e, f) == [e EXCEPT !.HLT = @ \cap f.HLT, !.Flag = @ \cap f.Flag]

\* an input chunk: is_mc is hasattr(events, "genWeight")
Chunks ==
    { [ev |-> [i \in 1..Len(s) |-> Carried(s[i], f)], is_mc |-> m, fields |-> f] :
        s \in SeqsUpTo(EventPool, MaxEvents), m \in BOOLEAN, f \in FieldSets }

WorkingPoints == {"loose", "medium", "tight"}

\* ------------------------------------------------------- the weight ledger
\* coffea.analysis_tools.Weights(size, storeIndividual=True): the combined
\* nominal weight w starts at 1 for every event; entries is the dict of the
\* individual factors in registration order.
WeightsNew(n) == [w |-> [i \in 1..n |-> 1], entries |-> <<>>]

WeightNames(L) == DictKeys(L.entries)

\* What the ledger does when a name is registered a second time is decided
\* by the ledger library, not by this repository: it either rejects the call
\* or multiplies the factor in again and overwrites the entry.
DuplicatePolicies == {"raise", "overwrite"}

\* a ledger whose combined weight is the factor registered last
WeightsAddReplace(L, name, nom, up, down, hasVar, dup) ==
    [weights |-> [w |-> nom,
                  entries |-> DictSet(L.entries, name, [nom |-> nom, up |-> up, down |-> down, hasVar |-> hasVar])],
     err |-> "none"]

\* Weights.add(name, weight, weightUp, weightDown)
WeightsAdd(L, name, nom, up, down, hasVar, dup) ==
    IF name \in WeightNames(L) /\ dup = "raise"
    THEN [weights |-> L, err |-> "DuplicateWeightError"]
    ELSE [weights |->
            [w |-> [i \in 1..Len(L.w) |-> L.w[i] * nom[i]],
             entries |-> DictSet(L.entries, name,
                                 [nom |-> nom, up |-> up, down |-> down,
                                  hasVar |-> hasVar])],
          err |-> "none"]

\* ------------------------------------------------- the scale-factor service
\* cset[key].evaluate(...) for one object: an opaque table, here a value that
\* depends on the variant and on the pt bin.
Evaluate(key, variant, eta, pt) ==
    LET sf == 2 + (pt \div 200000)
    IN IF variant \in {"sfup", "systup"} THEN sf + 1
       ELSE IF variant \in {"sfdown", "systdown"} THEN sf - 1
       ELSE sf

\* ak.flatten(collection) of one field
RECURSIVE Flatten(_)
Flatten(coll) == IF coll = <<>> THEN <<>> ELSE Head(coll) \o Flatten(Tail(coll))

\* one vectorised evaluate call, as the service sees it
Lookup(key, variant, wp, etas, pts) ==
    [key |-> key, variant |-> variant, wp |-> wp, eta |-> etas, pt |-> pts]

\* unflat_sf(cset[key].evaluate(...), self.n): the per-event product of the
\* per-object scale factors of the event's objects (1 for an event with none).
\* objs[i][k] is the (eta, pt) pair handed to the service for object k of
\* event i.
EventSF(objs, key, variant) ==
    [i \in 1..Len(objs) |->
        ProdSeq([k \in 1..Len(objs[i]) |->
                    Evaluate(key, variant, objs[i][k].eta, objs[i][k].pt)])]

FlatEta(objs) == LET flat == Flatten(objs) IN [k \in 1..Len(flat) |-> flat[k].eta]

FlatPt(objs) == LET flat == Flatten(objs) IN [k \in 1..Len(flat) |-> flat[k].pt]

\* the common tail with the test of the variation inverted
LookupAndAddInverted(c, L, name, key, wp, variants, objs, dup) ==
    LET etas == FlatEta(objs)
        pts == FlatPt(objs)
        nom == EventSF(objs, key, variants[1])
        up == EventSF(objs, key, variants[2])
        down == EventSF(objs, key, variants[3])
        added == IF c.variation # "nominal"
                 THEN WeightsAdd(L, name, nom, up, down, TRUE, dup)
                 ELSE WeightsAdd(L, name, nom, <<>>, <<>>, FALSE, dup)
    IN [weights |-> added.weights,
        lookups |-> IF c.variation # "nominal"
                    THEN <<Lookup(key, variants[1], wp, etas, pts),
                           Lookup(key, variants[2], wp, etas, pts),
                           Lookup(key, variants[3], wp, etas, pts)>>
                    ELSE <<Lookup(key, variants[1], wp, etas, pts)>>,
        err |-> added.err]

\* The common tail of every weight method: the nominal lookup, then for
\* variation "nominal" the up and down lookups and weights.add with both
\* variants, else weights.add with the nominal factor alone.
LookupAndAdd(c, L, name, key, wp, variants, objs, dup) ==
    LET etas == FlatEta(objs)
        pts == FlatPt(objs)
        nom == EventSF(objs, key, variants[1])
        up == EventSF(objs, key, variants[2])
        down == EventSF(objs, key, variants[3])
        added == IF c.variation = "nominal"
                 THEN WeightsAdd(L, name, nom, up, down, TRUE, dup)
                 ELSE WeightsAdd(L, name, nom, <<>>, <<>>, FALSE, dup)
    IN [weights |-> added.weights,
        lookups |-> IF c.variation = "nominal"
                    THEN <<Lookup(key, variants[1], wp, etas, pts),
                           Lookup(key, variants[2], wp, etas, pts),
                           Lookup(key, variants[3], wp, etas, pts)>>
                    ELSE <<Lookup(key, variants[1], wp, etas, pts)>>,
        err |-> added.err]

Raise(L, e) == [weights |-> L, lookups |-> <<>>, err |-> e]

\* ------------------------------------------------------- ElectronCorrector
ElectronCorrector(electrons, variation) ==
    [kind |-> "electron", variation |-> variation, id_wp |-> "tight",
     iso_wp |-> "tight", leptons |-> electrons]

ElectronVariants == <<"sf", "sfup", "sfdown">>

\* electron_eta = self.electrons_eta; electron_pt = np.clip(pt, 10.0, 499.999)
ElectronIdInputs(coll) ==
    [i \in 1..Len(coll) |-> [k \in 1..Len(coll[i]) |->
        [eta |-> coll[i][k].eta, pt |-> Clip(coll[i][k].pt, 10000, 499999)]]]

\* electron_eta = self.electrons_eta; electron_pt = np.clip(pt, 20.1, 499.999)
ElectronRecoInputs(coll) ==
    [i \in 1..Len(coll) |-> [k \in 1..Len(coll[i]) |->
        [eta |-> coll[i][k].eta, pt |-> Clip(coll[i][k].pt, 20100, 499999)]]]

ElectronAddIdWeight(c, L, id_working_point, dup) ==
    LookupAndAdd(c, L, "electron_id", "UL-Electron-ID-SF", id_working_point, ElectronVariants, ElectronIdInputs(c.leptons), dup)

ElectronAddRecoWeight(c, L, dup) ==
    LookupAndAdd(c, L, "electron_reco", "UL-Electron-ID-SF", "RecoAbove20", ElectronVariants, ElectronRecoInputs(c.leptons), dup)

\* ----------------------------------------------------------- MuonCorrector
MuonCorrector(muons, variation, id_wp, iso_wp) ==
    [kind |-> "muon", variation |-> variation, id_wp |-> id_wp,
     iso_wp |-> iso_wp, leptons |-> muons]

MuonVariants == <<"sf", "systup", "systdown">>

\* muon_eta = np.clip(np.abs(eta), 0.0, 2.399); muon_pt = np.clip(pt, 29.0, 199.999)
MuonTriggerInputs(coll) ==
    [i \in 1..Len(coll) |-> [k \in 1..Len(coll[i]) |->
        [eta |-> Clip(Abs(coll[i][k].eta), 0, 2399),
         pt |-> Clip(coll[i][k].pt, 29000, 199999)]]]

\* muon_eta = np.clip(np.abs(eta), 0.0, 2.399); muon_pt = np.clip(pt, 15.0, 119.999)
MuonIdIsoInputs(coll) ==
    [i \in 1..Len(coll) |-> [k \in 1..Len(coll[i]) |->
        [eta |-> Clip(Abs(coll[i][k].eta), 0, 2399),
         pt |-> Clip(coll[i][k].pt, 15000, 119999)]]]

\* the assertion with "or" in place of "and"
TriggerIsoAllowedEither(c) == c.id_wp = "tight" \/ c.iso_wp = "tight"

\* assert self.id_wp == "tight" and self.iso_wp == "tight"
TriggerIsoAllowed(c) == c.id_wp = "tight" /\ c.iso_wp = "tight"

MuonAddTriggerIsoWeight(c, L, dup) ==
    IF ~TriggerIsoAllowed(c) THEN Raise(L, "AssertionError")
    ELSE LookupAndAdd(c, L, "muon_triggeriso", "NUM_IsoMu_DEN_CutBasedIdTight_and_PFIsoTight", "", MuonVariants, MuonTriggerInputs(c.leptons), dup)

id_corrections(id_wp) ==
    CASE id_wp = "loose" -> "NUM_LooseID_DEN_TrackerMuons"
      [] id_wp = "medium" -> "NUM_MediumID_DEN_TrackerMuons"
      [] id_wp = "tight" -> "NUM_TightID_DEN_TrackerMuons"

\* the local iso_correction, "unbound" when no branch assigns it
iso_correction(c) ==
    IF c.iso_wp = "loose" /\ c.id_wp = "loose" THEN "NUM_LooseRelIso_DEN_LooseID"
    ELSE IF c.iso_wp = "loose" /\ c.id_wp = "medium" THEN "NUM_LooseRelIso_DEN_MediumID"
    ELSE IF c.iso_wp = "loose" /\ c.id_wp = "tight"
         THEN "NUM_LooseRelIso_DEN_TightIDandIPCut"
    ELSE IF c.iso_wp = "tight" /\ c.id_wp = "medium" THEN "NUM_TightRelIso_DEN_MediumID"
    ELSE IF c.iso_wp = "tight" /\ c.id_wp = "tight"
         THEN "NUM_TightRelIso_DEN_TightIDandIPCut"
    ELSE "unbound"

\* if self.iso_wp == "tight": assert self.id_wp != "loose"
AddWeightAllowed(c) == ~(c.iso_wp = "tight" /\ c.id_wp = "loose")

MuonAddWeight(c, L, sf_type, dup) ==
    IF ~AddWeightAllowed(c) THEN Raise(L, "AssertionError")
    ELSE IF iso_correction(c) = "unbound" THEN Raise(L, "UnboundLocalError")
    ELSE LookupAndAdd(c, L, IF sf_type = "id" THEN "muon_id" ELSE "muon_iso",
                      IF sf_type = "id" THEN id_corrections(c.id_wp)
                      ELSE iso_correction(c),
                      "", MuonVariants, MuonIdIsoInputs(c.leptons), dup)

MuonAddIdWeight(c, L, dup) == MuonAddWeight(c, L, "id", dup)

MuonAddIsoWeight(c, L, dup) == MuonAddWeight(c, L, "iso", dup)

\* ------------------------------------------------- configuration of the run
\* ztoll_electron_selection["electron_id_wp"] (selections/ztoll/config.py)
electron_id_wp == "wp80iso"

\* triggers.json[year]: the trigger bits listed for each channel
triggers(ch) == IF ch = "ele" THEN <<"Ele32", "Photon200">> ELSE <<"IsoMu27", "Mu50">>

\* metfilters.json[year]: the filter bits listed for simulation and for data
metfilters_cfg(key) ==
    IF key = "mc" THEN <<"goodVertices", "BadPFMuonFilter">>
    ELSE <<"goodVertices", "BadPFMuonFilter", "eeBadScFilter">>

\* cut lists that name the trigger mask without its channel
regionsPlainTrigger(flavor) ==
    <<"goodvertex", "lumi", "trigger", "metfilters", "bjet_veto",
      "two_leptons", "neutral", "mass_range", "mthlt60",
      IF flavor = "ele" THEN "ee" ELSE "mumu">>

\* the ordered cut list of each region
regions(flavor) ==
    IF flavor = "ele"
    THEN <<"goodvertex", "lumi", "trigger_ele", "metfilters", "bjet_veto",
           "two_leptons", "neutral", "mass_range", "mthlt60", "ee">>
    ELSE <<"goodvertex", "lumi", "trigger_mu", "metfilters", "bjet_veto",
           "two_leptons", "neutral", "mass_range", "mthlt60", "mumu">>

\* --------------------------------------------- the collaborators of process
\* select_good_electrons / select_good_muons: the per-object mask (its value
\* for each object is the object's good flag)
GoodMask(coll) == [k \in 1..Len(coll) |-> coll[k].good]

\* jet_corrections(events, year): the corrected jets (pt and mass rescaled)
CorrectedJets(e) == [k \in 1..Len(e.Jet) |-> [e.Jet[k] EXCEPT !.pt = @ + 10, !.mass = @ + 1]]

\* jet_corrections(events, year): the MET with the jet corrections propagated
PropagatedMET(e) == [pt |-> e.MET.pt + 2 * Len(e.Jet), phi |-> e.MET.phi]

\* select_good_bjets(...) & delta_r_mask(jets, good_leptons, 0.4)
GoodBJetMask(js, leptons) ==
    [k \in 1..Len(js) |->
        js[k].pt >= 30 /\ js[k].btag /\ (leptons = <<>> \/ ~js[k].nearLepton)]

\* met_phi_corrections(met_pt, met_phi, npvs, is_mc, year, year_mod)
met_phi_corrections(m, npvs, is_mc) ==
    [pt |-> m.pt + npvs, phi |-> (m.phi + npvs + (IF is_mc THEN 1 ELSE 0)) % 4]

\* add_l1prefiring_weight, add_pileup_weight, add_pujetid_weight and
\* BTagCorrector.add_btag_weights: one factor each, with up/down variants
ExternalWeights == <<"l1prefiring", "pileup", "pujetid", "btag">>

ExternalFactor(name, e, js) ==
    IF name = "pileup" THEN 1 + e.npvsGood
    ELSE IF name = "pujetid" THEN 1 + Len(js)
    ELSE 1

RECURSIVE AddExternal(_, _, _, _)
AddExternal(L, names, ev, js) ==
    IF names = <<>> THEN L
    ELSE LET f == [i \in 1..Len(ev) |-> ExternalFactor(Head(names), ev[i], js[i])]
         IN AddExternal(WeightsAdd(L, Head(names), f, f, f, TRUE, "raise").weights,
                        Tail(names), ev, js)

\* cos of a quadrant angle
Cos4(q) == IF q = 0 THEN 1 ELSE IF q = 2 THEN 0 - 1 ELSE 0

\* normalize(array): missing entries replaced by the fill value
normalize(arr) == [k \in 1..Len(arr) |-> IF arr[k] = None THEN 0 ELSE arr[k]]

\* ----------------------------------------------------------------- state
VARIABLES
    lepton_flavor,      \* self._lepton_flavor
    muon_selection,     \* ztoll_muon_selection: [muon_id_wp, muon_iso_wp]
    nchunks,            \* how many chunks the instance has been handed so far
    features,           \* self.features
    events,             \* the chunk handed to process
    pc,                 \* the position of process
    trace,              \* the steps process has run, in order
    err,                \* the exception process raised, or "none"
    good_leptons,       \* local good_leptons, per event
    jets,               \* local jets, per event
    met,                \* local met, per event
    bjets,              \* local bjets, per event
    weights_container,  \* local weights_container
    lookups,            \* the evaluate calls made on the scale-factor service
    variables,          \* the per-event variables (ptl1 ... nvtx)
    selections,         \* self.selections
    output,             \* local output
    array_dict,         \* local array_dict
    nevents_after,      \* local nevents_after
    corrector,          \* a corrector object driven directly
    ncalls,             \* number of weight-method calls made on corrector
    call,               \* the last weight-method call and its outcome
    factors,            \* the registrations a client of the ledger is to make
    args,               \* submit_lxplus.main: args (the entries used for the job name)
    root_files_list,    \* main: root_files_list
    submit,             \* main: submit
    nsplit,             \* main: the loop variable
    job,                \* submit_condor: jobname, flavor and cmd of the job being built
    condor,             \* the files written and the jobs submitted, in order
    lx_pc               \* the position of main

locals == <<good_leptons, jets, met, bjets, weights_container, lookups, variables, selections, output, array_dict, nevents_after>>

instance == <<lepton_flavor, muon_selection, nchunks>>

lxplus == <<args, root_files_list, submit, nsplit, job, condor, lx_pc>>

harness == <<corrector, ncalls, call, factors, lxplus>>

vars == <<instance, features, events, pc, trace, err, locals, harness>>

\* everything but the weight ledger and the harness
process_state == <<instance, features, events, pc, trace, err, good_leptons, jets, met, bjets, lookups, variables, selections, output, array_dict, nevents_after>>

nevents == Len(events.ev)

NoCall == [op |-> "none", variation |-> "none", pre |-> WeightsNew(0), lookups |-> <<>>, err |-> "none"]

\* A value of args["nsample"]: the string the command line gives, or the
\* integer the loop of main assigns.
StrValue(t) == [str |-> t, int |-> 0]

IntValue(k) == [str |-> "", int |-> k]

\* Python truth of such a value: "" is false, a non-empty string or a
\* positive integer is true
Truthy(v) == v.str # "" \/ v.int # 0

NoJob == [jobname |-> <<>>, flavor |-> "none", cmd |-> <<>>]

\* submit_lxplus.main is not running
LxplusIdle ==
    /\ args = [nsample |-> StrValue("")]
    /\ root_files_list = <<>>
    /\ submit = FALSE
    /\ nsplit = 0
    /\ job = NoJob
    /\ condor = <<>>
    /\ lx_pc = "idle"

NoOutput ==
    [sumw |-> None, weight_statistics |-> <<>>, cutflow |-> <<>>, arrays |-> <<>>,
     events_before |-> None, events_after |-> None]

\* the state of a ZToLLProcessor after __init__, about to process a chunk
Init ==
    /\ lepton_flavor \in {"ele", "mu"}
    /\ muon_selection \in [muon_id_wp : WorkingPoints, muon_iso_wp : WorkingPoints]
    /\ (lepton_flavor = "ele" =>
            muon_selection = [muon_id_wp |-> "tight", muon_iso_wp |-> "tight"])
    /\ nchunks = 1
    /\ features = <<>>
    /\ events \in Chunks
    /\ pc = "start"
    /\ trace = <<>>
    /\ err = "none"
    /\ good_leptons = <<>>
    /\ jets = <<>>
    /\ met = <<>>
    /\ bjets = <<>>
    /\ weights_container = WeightsNew(0)
    /\ lookups = <<>>
    /\ variables = <<>>
    /\ selections = <<>>
    /\ output = NoOutput
    /\ array_dict = <<>>
    /\ nevents_after = None
    /\ corrector = ElectronCorrector(<<>>, "nominal")
    /\ ncalls = 0
    /\ call = NoCall
    /\ factors = <<>>
    /\ LxplusIdle

\* ------------------------------------------------- ZToLLProcessor.process
\* lines 76-98: the good leptons of the configured flavor
SelectedLeptons(e, flavor) ==
    IF flavor = "ele" THEN FilterSeq(e.Electron, GoodMask(e.Electron))
    ELSE FilterSeq(e.Muon, GoodMask(e.Muon))

SelectLeptons ==
    /\ pc = "start"
    /\ good_leptons' = [i \in 1..nevents |-> SelectedLeptons(events.ev[i], lepton_flavor)]
    /\ trace' = Append(trace, "select_good_leptons")
    /\ pc' = "jet_corrections"
    /\ UNCHANGED <<instance, features, events, err, jets, met, bjets, weights_container, lookups, variables, selections, output, array_dict, nevents_after, harness>>

\* jet corrections applied whatever the kind of data
JetsForAlways(e, is_mc) == CorrectedJets(e)

\* lines 100-105: corrected jets and MET for simulation, the input ones for data
JetsFor(e, is_mc) == IF is_mc THEN CorrectedJets(e) ELSE e.Jet

METFor(e, is_mc) == IF is_mc THEN PropagatedMET(e) ELSE e.MET

JetCorrections ==
    /\ pc = "jet_corrections"
    /\ jets' = [i \in 1..nevents |-> JetsFor(events.ev[i], events.is_mc)]
    /\ met' = [i \in 1..nevents |-> METFor(events.ev[i], events.is_mc)]
    /\ trace' = Append(trace, IF events.is_mc THEN "jet_corrections" ELSE "take_input_jets_met")
    /\ pc' = "select_bjets"
    /\ UNCHANGED <<instance, features, events, err, good_leptons, bjets, weights_container, lookups, variables, selections, output, array_dict, nevents_after, harness>>

\* the b-jet selection run on the input jets, as if before the corrections
SelectBJetsFromInput ==
    /\ pc = "select_bjets"
    /\ bjets' = [i \in 1..nevents |-> FilterSeq(events.ev[i].Jet, GoodBJetMask(events.ev[i].Jet, good_leptons[i]))]
    /\ trace' = Append(trace, "select_good_bjets")
    /\ pc' = "met_phi_corrections"
    /\ UNCHANGED <<instance, features, events, err, good_leptons, jets, met, weights_container, lookups, variables, selections, output, array_dict, nevents_after, harness>>

\* lines 107-116: the good b-jets, away from the good leptons
SelectBJets ==
    /\ pc = "select_bjets"
    /\ bjets' = [i \in 1..nevents |-> FilterSeq(jets[i], GoodBJetMask(jets[i], good_leptons[i]))]
    /\ trace' = Append(trace, "select_good_bjets")
    /\ pc' = "met_phi_corrections"
    /\ UNCHANGED <<instance, features, events, err, good_leptons, jets, met, weights_container, lookups, variables, selections, output, array_dict, nevents_after, harness>>

\* lines 118-127: the MET phi corrections, written into the local met
CorrectedMET(m, e, is_mc) == met_phi_corrections(m, e.npvsGood, is_mc)

MetPhiCorrections ==
    /\ pc = "met_phi_corrections"
    /\ met' = [i \in 1..nevents |-> CorrectedMET(met[i], events.ev[i], events.is_mc)]
    /\ trace' = Append(trace, "met_phi_corrections")
    /\ pc' = "weights"
    /\ UNCHANGED <<instance, features, events, err, good_leptons, jets, bjets, weights_container, lookups, variables, selections, output, array_dict, nevents_after, harness>>

\* r, then the next weight method unless r already raised
AndThen(r, nxt) ==
    IF r.err # "none" THEN r
    ELSE [weights |-> nxt.weights, lookups |-> r.lookups \o nxt.lookups, err |-> nxt.err]

\* lines 170-183: the electron weights
ElectronWeights(L, ev) ==
    LET c == ElectronCorrector([i \in 1..Len(ev) |-> ev[i].Electron], "nominal")
        r1 == ElectronAddIdWeight(c, L, electron_id_wp, "raise")
    IN AndThen(r1, ElectronAddRecoWeight(c, r1.weights, "raise"))

\* lines 184-200: the muon weights
MuonWeights(L, ev, wp) ==
    LET c == MuonCorrector([i \in 1..Len(ev) |-> ev[i].Muon], "nominal", wp.muon_id_wp, wp.muon_iso_wp)
        r1 == MuonAddIdWeight(c, L, "raise")
        r2 == AndThen(r1, MuonAddIsoWeight(c, r1.weights, "raise"))
    IN AndThen(r2, MuonAddTriggerIsoWeight(c, r2.weights, "raise"))

\* the event-level factors without the generator weight
EventWeightsNoGen(L, ev, js) == AddExternal(L, ExternalWeights, ev, js)

\* lines 135-168: the generator weight and the four event-level factors
EventWeights(L, ev, js) ==
    AddExternal(WeightsAdd(L, "genweight", [i \in 1..Len(ev) |-> ev[i].genWeight], <<>>, <<>>, FALSE, "raise").weights, ExternalWeights, ev, js)

\* the ledger of the chunk with the muon working points validated before the
\* first factor is registered
BuildWeightsEager(ev, is_mc, js, flavor, wp) ==
    IF ~is_mc THEN [weights |-> WeightsNew(Len(ev)), lookups |-> <<>>, err |-> "none"]
    ELSE IF flavor = "ele" THEN ElectronWeights(EventWeights(WeightsNew(Len(ev)), ev, js), ev)
    ELSE IF ~(wp.muon_id_wp = "tight" /\ wp.muon_iso_wp = "tight")
         THEN Raise(WeightsNew(Len(ev)), "AssertionError")
    ELSE MuonWeights(EventWeights(WeightsNew(Len(ev)), ev, js), ev, wp)

\* lines 132-200: the ledger of the chunk
BuildWeights(ev, is_mc, js, flavor, wp) ==
    IF ~is_mc THEN [weights |-> WeightsNew(Len(ev)), lookups |-> <<>>, err |-> "none"]
    ELSE IF flavor = "ele" THEN ElectronWeights(EventWeights(WeightsNew(Len(ev)), ev, js), ev)
    ELSE MuonWeights(EventWeights(WeightsNew(Len(ev)), ev, js), ev, wp)

WeightAccumulation ==
    /\ pc = "weights"
    /\ LET r == BuildWeights(events.ev, events.is_mc, jets, lepton_flavor, muon_selection)
       IN /\ weights_container' = r.weights
          /\ lookups' = r.lookups
          /\ err' = r.err
          /\ pc' = IF r.err = "none" THEN "metadata" ELSE "error"
    /\ trace' = Append(trace, "weights")
    /\ UNCHANGED <<instance, features, events, good_leptons, jets, met, bjets, variables, selections, output, array_dict, nevents_after, harness>>

\* lines 203-207: sumw and the weight statistics
WeightStatistics(L) ==
    [k \in 1..Len(L.entries) |-> [name |-> L.entries[k].name, value |-> [sumw |-> SumSeq(L.entries[k].value.nom), n |-> Len(L.entries[k].value.nom)]]]

Metadata ==
    /\ pc = "metadata"
    /\ output' = [output EXCEPT !.sumw = SumSeq(weights_container.w), !.weight_statistics = WeightStatistics(weights_container)]
    /\ trace' = Append(trace, "metadata")
    /\ pc' = "variables"
    /\ UNCHANGED <<instance, features, events, err, good_leptons, jets, met, bjets, weights_container, lookups, variables, selections, array_dict, nevents_after, harness>>

\* lines 209-238: the variables of one event
EventVariables(e, gl, m) ==
    LET two == Len(gl) >= 2
        ptll == IF two THEN e.Dilepton.ptll ELSE None
    IN [ptl1 |-> IF Len(gl) >= 1 THEN gl[1].pt ELSE None,
        ptl2 |-> IF two THEN gl[2].pt ELSE None,
        ptll |-> ptll,
        mll |-> IF two THEN e.Dilepton.mll ELSE None,
        dphill |-> IF two THEN e.Dilepton.dphill ELSE None,
        drll |-> IF two THEN e.Dilepton.drll ELSE None,
        mth |-> IF two THEN 2 * ptll * m.pt * (1 - Cos4(m.phi)) ELSE None,
        nvtx |-> e.npvsGood]

VariableComputation ==
    /\ pc = "variables"
    /\ variables' = [i \in 1..nevents |-> EventVariables(events.ev[i], good_leptons[i], met[i])]
    /\ trace' = Append(trace, "variables")
    /\ pc' = "masks"
    /\ UNCHANGED <<instance, features, events, err, good_leptons, jets, met, bjets, weights_container, lookups, selections, output, array_dict, nevents_after, harness>>

\* lines 260-265: the OR of the listed trigger bits the chunk carries
RECURSIVE TriggerOr(_, _, _)
TriggerOr(listed, fields, bits) ==
    IF listed = <<>> THEN FALSE
    ELSE LET rest == TriggerOr(SubSeq(listed, 1, Len(listed) - 1), fields, bits)
             t == listed[Len(listed)]
         IN IF t \in fields THEN rest \/ (t \in bits) ELSE rest

\* the AND of all listed filter bits, a bit the chunk lacks counting as unset
FilterAndStrict(listed, fields, bits) == \A k \in 1..Len(listed) : listed[k] \in fields /\ listed[k] \in bits

\* lines 273-277: the AND of the listed filter bits the chunk carries
RECURSIVE FilterAnd(_, _, _)
FilterAnd(listed, fields, bits) ==
    IF listed = <<>> THEN TRUE
    ELSE LET rest == FilterAnd(SubSeq(listed, 1, Len(listed) - 1), fields, bits)
             mf == listed[Len(listed)]
         IN IF mf \in fields THEN rest /\ (mf \in bits) ELSE rest

\* lines 250-253: the luminosity mask (all-true for simulation)
LumiMask(e, is_mc) == IF is_mc THEN TRUE ELSE e.lumiOK

PdgProduct(gl) == ProdSeq([k \in 1..Len(gl) |-> gl[k].pdgId])

\* lines 244-297: the masks, in the order they are registered (a missing
\* value in a mask counts as FALSE)
RegisteredMasks(ev, is_mc, fields, gl, bj, v) ==
    LET n == Len(ev)
        Mask(name, m) == [name |-> name, value |-> m]
    IN << Mask("lumi", [i \in 1..n |-> LumiMask(ev[i], is_mc)]),
          Mask("trigger_ele", [i \in 1..n |-> TriggerOr(triggers("ele"), fields.HLT, ev[i].HLT)]),
          Mask("trigger_mu", [i \in 1..n |-> TriggerOr(triggers("mu"), fields.HLT, ev[i].HLT)]),
          Mask("metfilters", [i \in 1..n |-> FilterAnd(metfilters_cfg(IF is_mc THEN "mc" ELSE "data"), fields.Flag, ev[i].Flag)]),
          Mask("goodvertex", [i \in 1..n |-> ev[i].npvsGood > 0]),
          Mask("two_leptons", [i \in 1..n |-> Len(gl[i]) = 2]),
          Mask("neutral", [i \in 1..n |-> Len(gl[i]) >= 2 /\ gl[i][1].charge * gl[i][2].charge < 0]),
          Mask("mass_range", [i \in 1..n |-> v[i].mll # None /\ v[i].mll > 60 /\ v[i].mll < 120]),
          Mask("bjet_veto", [i \in 1..n |-> Len(bj[i]) = 0]),
          Mask("mthlt60", [i \in 1..n |-> v[i].mth # None /\ v[i].mth < 3600]),
          Mask("ee", [i \in 1..n |-> PdgProduct(gl[i]) = 0 - 121]),
          Mask("mumu", [i \in 1..n |-> PdgProduct(gl[i]) = 0 - 169]),
          Mask("emu", [i \in 1..n |-> PdgProduct(gl[i]) = 0 - 143]) >>

MaskRegistration ==
    /\ pc = "masks"
    /\ selections' = RegisteredMasks(events.ev, events.is_mc, events.fields, good_leptons, bjets, variables)
    /\ trace' = Append(trace, "masks")
    /\ pc' = "cutflow"
    /\ UNCHANGED <<instance, features, events, err, good_leptons, jets, met, bjets, weights_container, lookups, variables, output, array_dict, nevents_after, harness>>

\* the elementwise OR of the named masks
RECURSIVE SelectionsAny(_, _, _)
SelectionsAny(S, names, n) ==
    IF names = <<>> THEN [i \in 1..n |-> FALSE]
    ELSE LET rest == SelectionsAny(S, Tail(names), n)
             m == DictGet(S, Head(names))
         IN [i \in 1..n |-> m[i] \/ rest[i]]

\* PackedSelection.all(*names): the elementwise AND of the named masks
RECURSIVE SelectionsAll(_, _, _)
SelectionsAll(S, names, n) ==
    IF names = <<>> THEN [i \in 1..n |-> TRUE]
    ELSE LET rest == SelectionsAll(S, Tail(names), n)
             m == DictGet(S, Head(names))
         IN [i \in 1..n |-> m[i] /\ rest[i]]

\* the k-th cut alone, without the cuts listed before it
CutAlone(cut_names, k) == <<cut_names[k]>>

\* lines 332-334: the names queried for the k-th cut
CutPrefix(cut_names, k) == SubSeq(cut_names, 1, k)

\* lines 330-338: the cutflow dict, filled cut by cut
RECURSIVE CutflowFrom(_, _, _, _, _)
CutflowFrom(k, cut_names, S, w, acc) ==
    IF k > Len(cut_names) THEN acc
    ELSE CutflowFrom(k + 1, cut_names, S, w,
            DictSet(acc, cut_names[k],
                    SumSeq(FilterSeq(w, SelectionsAll(S, CutPrefix(cut_names, k), Len(w))))))

Cutflow ==
    /\ pc = "cutflow"
    /\ output' = [output EXCEPT !.cutflow = CutflowFrom(1, regions(lepton_flavor), selections, weights_container.w, <<>>)]
    /\ trace' = Append(trace, "cutflow")
    /\ pc' = "features"
    /\ UNCHANGED <<instance, features, events, err, good_leptons, jets, met, bjets, weights_container, lookups, variables, selections, array_dict, nevents_after, harness>>

FeatureNames == <<"ptl1", "ptl2", "ptll", "mll", "dphill", "drll", "mth", "nvtx">>

Column(v, name) == [i \in 1..Len(v) |-> v[i][name]]

\* add_feature extending the array a feature already holds
RECURSIVE AddFeaturesExtend(_, _, _, _)
AddFeaturesExtend(f, names, v, region_selection) ==
    IF names = <<>> THEN f
    ELSE LET old == IF Head(names) \in DictKeys(f) THEN DictGet(f, Head(names)) ELSE <<>>
         IN AddFeaturesExtend(DictSet(f, Head(names), old \o FilterSeq(Column(v, Head(names)), region_selection)),
                              Tail(names), v, region_selection)

\* lines 352-359: add_feature for each variable, restricted to the region
RECURSIVE AddFeatures(_, _, _, _)
AddFeatures(f, names, v, region_selection) ==
    IF names = <<>> THEN f
    ELSE AddFeatures(DictSet(f, Head(names), FilterSeq(Column(v, Head(names)), region_selection)),
                     Tail(names), v, region_selection)

\* the region's features with the weights of all events of the chunk
RegionFeaturesAllWeights(f, v, w, region_selection) ==
    DictSet(AddFeatures(f, FeatureNames, v, region_selection), "weights", w)

\* lines 352-380: self.features after the region's features and weights
RegionFeatures(f, v, w, region_selection) ==
    DictSet(AddFeatures(f, FeatureNames, v, region_selection), "weights", FilterSeq(w, region_selection))

\* lines 383-386: the column accumulators built from self.features
ColumnAccumulators(f) == [k \in 1..Len(f) |-> [name |-> f[k].name, value |-> normalize(f[k].value)]]

\* feature extraction without the "if nevents_after == 0: continue" guard
FeatureExtractionNoSkip ==
    /\ pc = "features"
    /\ LET region_selection == SelectionsAll(selections, regions(lepton_flavor), nevents)
       IN /\ nevents_after' = Len(FilterSeq(region_selection, region_selection))
          /\ features' = RegionFeatures(features, variables, weights_container.w, region_selection)
          /\ array_dict' = ColumnAccumulators(features')
    /\ trace' = Append(trace, "features")
    /\ pc' = "return"
    /\ UNCHANGED <<instance, events, err, good_leptons, jets, met, bjets, weights_container, lookups, variables, selections, output, harness>>

\* lines 342-386
FeatureExtraction ==
    /\ pc = "features"
    /\ LET region_selection == SelectionsAll(selections, regions(lepton_flavor), nevents)
           n_after == Len(FilterSeq(region_selection, region_selection))
       IN /\ nevents_after' = n_after
          /\ IF n_after = 0
             THEN UNCHANGED <<features, array_dict>>
             ELSE /\ features' = RegionFeatures(features, variables, weights_container.w, region_selection)
                  /\ array_dict' = ColumnAccumulators(features')
    /\ trace' = Append(trace, "features")
    /\ pc' = "return"
    /\ UNCHANGED <<instance, events, err, good_leptons, jets, met, bjets, weights_container, lookups, variables, selections, output, harness>>

\* lines 388-396
Return ==
    /\ pc = "return"
    /\ output' = [output EXCEPT !.arrays = array_dict, !.events_before = nevents, !.events_after = nevents_after]
    /\ pc' = "done"
    /\ UNCHANGED <<instance, features, events, trace, err, good_leptons, jets, met, bjets, weights_container, lookups, variables, selections, array_dict, nevents_after, harness>>

\* lines 58-396 as one function: what process returns (or raises) for a
\* chunk, on an instance configured with flavor whose self.features is f0
\* when the call starts, given the outcome r of the weight accumulation
ProcessRecordWith(chunk, flavor, f0, r) ==
    LET ev == chunk.ev
        n == Len(ev)
        gl == [i \in 1..n |-> SelectedLeptons(ev[i], flavor)]
        js == [i \in 1..n |-> JetsFor(ev[i], chunk.is_mc)]
        m == [i \in 1..n |-> CorrectedMET(METFor(ev[i], chunk.is_mc), ev[i], chunk.is_mc)]
        bj == [i \in 1..n |-> FilterSeq(js[i], GoodBJetMask(js[i], gl[i]))]
        v == [i \in 1..n |-> EventVariables(ev[i], gl[i], m[i])]
        S == RegisteredMasks(ev, chunk.is_mc, chunk.fields, gl, bj, v)
        region_selection == SelectionsAll(S, regions(flavor), n)
        n_after == Len(FilterSeq(region_selection, region_selection))
    IN IF r.err # "none" THEN [raised |-> r.err]
       ELSE [sumw |-> SumSeq(r.weights.w),
             weight_statistics |-> WeightStatistics(r.weights),
             cutflow |-> CutflowFrom(1, regions(flavor), S, r.weights.w, <<>>),
             arrays |-> IF n_after = 0 THEN <<>>
                        ELSE ColumnAccumulators(RegionFeatures(f0, v, r.weights.w, region_selection)),
             events_before |-> n,
             events_after |-> n_after]

\* the weight accumulation of process for a chunk (lines 132-200, on the
\* jets of lines 100-105)
ProcessWeights(chunk, flavor, wp) ==
    BuildWeights(chunk.ev, chunk.is_mc, [i \in 1..Len(chunk.ev) |-> JetsFor(chunk.ev[i], chunk.is_mc)], flavor, wp)

ProcessRecord(chunk, flavor, wp, f0) ==
    ProcessRecordWith(chunk, flavor, f0, ProcessWeights(chunk, flavor, wp))

Next ==
    \/ SelectLeptons
    \/ JetCorrections
    \/ SelectBJets
    \/ MetPhiCorrections
    \/ WeightAccumulation
    \/ Metadata
    \/ VariableComputation
    \/ MaskRegistration
    \/ Cutflow
    \/ FeatureExtraction
    \/ Return

Spec == Init /\ [][Next]_vars

\* ------------------------------------- one instance, one chunk after another
\* The events of the chunks handed to a reused instance: two that pass every
\* cut of both regions and one that fails.
ReusePool ==
    { Ev(2, 1, EE, MM, Pair(20, 91, 3, 3), <<>>, 10, 0,
         {"Ele32", "IsoMu27"}, FlagNames, TRUE),
      Ev(0 - 1, 1, EE, MM, Pair(35, 80, 2, 2), <<Jet(40, FALSE, FALSE)>>, 10, 3,
         {"Photon200", "Mu50"}, FlagNames, TRUE),
      Ev(3, 1, <<Lep(11, 45000, 500, TRUE), Lep(11, 600000, 0, TRUE)>>,
         <<Lep(13, 30000, 100, TRUE), Lep(13, 10000, 0 - 2600, TRUE)>>,
         Pair(20, 130, 1, 1), <<>>, 10, 0,
         {"Ele32", "IsoMu27"}, FlagNames, TRUE) }

ReuseChunks ==
    { [ev |-> s, is_mc |-> m, fields |-> [HLT |-> HLTNames, Flag |-> FlagNames]] :
        s \in SeqsUpTo(ReusePool, MaxEvents), m \in BOOLEAN }

\* the instance is configured for electrons, or for muons with tight
\* isolation and medium or tight identification
InitReuse ==
    /\ Init
    /\ events \in ReuseChunks
    /\ muon_selection.muon_iso_wp = "tight"
    /\ muon_selection.muon_id_wp \in {"medium", "tight"}

\* process is called again on the same instance, after it returned or raised:
\* the locals are new, self.features and self.selections are what the
\* previous call left (line 74: array_dict is a copy of self.array_dict,
\* which no call modifies)
NextChunk ==
    /\ pc \in {"done", "error"}
    /\ nchunks < MaxChunks
    /\ nchunks' = nchunks + 1
    /\ events' \in ReuseChunks
    /\ pc' = "start"
    /\ trace' = <<>>
    /\ err' = "none"
    /\ good_leptons' = <<>>
    /\ jets' = <<>>
    /\ met' = <<>>
    /\ bjets' = <<>>
    /\ weights_container' = WeightsNew(0)
    /\ lookups' = <<>>
    /\ variables' = <<>>
    /\ output' = NoOutput
    /\ array_dict' = <<>>
    /\ nevents_after' = None
    /\ UNCHANGED <<lepton_flavor, muon_selection, features, selections, harness>>

NextReuse ==
    \/ Next
    \/ NextChunk

SpecReuse == InitReuse /\ [][NextReuse]_vars

\* ------------------------- the registrations of process, in any order
\* The weight factors process registers for a simulated chunk (lines
\* 135-200), registered in the chunk's ledger one at a time in an order
\* chosen freely.
LedgerEvents ==
    << Ev(3, 1, EE, MM, Pair(20, 91, 3, 3), <<Jet(40, FALSE, FALSE)>>, 10, 0,
          {"Ele32", "IsoMu27"}, FlagNames, TRUE),
       Ev(0 - 1, 2, EE, <<Lep(13, 30000, 100, TRUE), Lep(0 - 13, 250000, 0, TRUE)>>,
          Pair(35, 80, 2, 2), <<>>, 10, 3,
          {"Ele32", "IsoMu27"}, FlagNames, TRUE),
       Ev(2, 1, <<Lep(11, 45000, 500, TRUE)>>, <<Lep(13, 30000, 100, TRUE)>>,
          Pair(20, 91, 3, 3), <<>>, 10, 0, {}, FlagNames, TRUE),
       Ev(0 - 1, 3, EE, MM, Pair(20, 130, 1, 1), <<>>, 100, 0,
          {"Ele32", "IsoMu27"}, FlagNames, TRUE) >>

\* the simulated chunk of MaxEvents of these events
LedgerChunks ==
    { [ev |-> SubSeq(LedgerEvents, 1, IF MaxEvents < Len(LedgerEvents) THEN MaxEvents ELSE Len(LedgerEvents)),
       is_mc |-> TRUE, fields |-> [HLT |-> HLTNames, Flag |-> FlagNames]] }

\* the factors of the chunk, in the order process registers them
ProcessFactors == ProcessWeights(events, lepton_flavor, muon_selection).weights.entries

InitLedger ==
    /\ lepton_flavor \in {"ele", "mu"}
    /\ muon_selection = [muon_id_wp |-> "tight", muon_iso_wp |-> "tight"]
    /\ nchunks = 1
    /\ features = <<>>
    /\ events \in LedgerChunks
    /\ pc = "ledger"
    /\ trace = <<>>
    /\ err = "none"
    /\ good_leptons = <<>>
    /\ jets = <<>>
    /\ met = <<>>
    /\ bjets = <<>>
    /\ weights_container = WeightsNew(nevents)
    /\ lookups = <<>>
    /\ variables = <<>>
    /\ selections = <<>>
    /\ output = NoOutput
    /\ array_dict = <<>>
    /\ nevents_after = None
    /\ corrector = ElectronCorrector(<<>>, "nominal")
    /\ ncalls = 0
    /\ call = NoCall
    /\ factors = ProcessFactors
    /\ LxplusIdle

\* one of the registrations of process that has not been made yet
RegisterFactor(k) ==
    /\ pc = "ledger"
    /\ factors[k].name \notin WeightNames(weights_container)
    /\ LET f == factors[k].value
       IN weights_container' = WeightsAdd(weights_container, factors[k].name, f.nom, f.up, f.down, f.hasVar, "raise").weights
    /\ UNCHANGED <<process_state, harness>>

NextLedger == \E k \in 1..Len(factors) : RegisterFactor(k)

SpecLedger == InitLedger /\ [][NextLedger]_vars

\* ------------------------------------------ the correctors, driven directly
\* A client constructs a corrector over a lepton collection and a ledger and
\* calls its weight methods, in any order and any number of times (up to
\* MaxCalls); it may construct another corrector over the same ledger.
LeptonCollections ==
    { <<EE, <<>>>>,
      <<MM>>,
      << <<Lep(13, 10000, 0 - 2600, TRUE)>>,
         <<Lep(0 - 13, 30000, 100, TRUE), Lep(11, 600000, 0, FALSE)>> >>,
      \* values below, on and above the edges of the lookup domains
      << <<Lep(11, 8000, 3000, TRUE), Lep(0 - 11, 499999, 0 - 2399, TRUE)>>,
         <<Lep(13, 119999, 2399, TRUE), Lep(0 - 13, 200000, 0, TRUE)>> >> }

Variations == {"nominal", "JESUp"}

Correctors ==
    {ElectronCorrector(coll, v) : coll \in LeptonCollections, v \in Variations}
    \cup {MuonCorrector(coll, v, id, iso) : coll \in LeptonCollections, v \in Variations, id \in WorkingPoints, iso \in WorkingPoints}

InitCorr ==
    /\ lepton_flavor = "ele"
    /\ muon_selection = [muon_id_wp |-> "tight", muon_iso_wp |-> "tight"]
    /\ nchunks = 0
    /\ features = <<>>
    /\ events = [ev |-> <<>>, is_mc |-> TRUE, fields |-> [HLT |-> {}, Flag |-> {}]]
    /\ pc = "idle"
    /\ trace = <<>>
    /\ err = "none"
    /\ good_leptons = <<>>
    /\ jets = <<>>
    /\ met = <<>>
    /\ bjets = <<>>
    /\ lookups = <<>>
    /\ variables = <<>>
    /\ selections = <<>>
    /\ output = NoOutput
    /\ array_dict = <<>>
    /\ nevents_after = None
    /\ corrector \in Correctors
    /\ weights_container = WeightsNew(Len(corrector.leptons))
    /\ ncalls = 0
    /\ call = NoCall
    /\ factors = <<>>
    /\ LxplusIdle

\* the bookkeeping of one method call with outcome r
Called(op, r) ==
    /\ pc = "idle"
    /\ ncalls < MaxCalls
    /\ ncalls' = ncalls + 1
    /\ call' = [op |-> op, variation |-> corrector.variation, pre |-> weights_container, lookups |-> r.lookups, err |-> r.err]
    /\ weights_container' = r.weights
    /\ UNCHANGED <<process_state, corrector, factors, lxplus>>

CallElectronId(wp, dup) ==
    /\ corrector.kind = "electron"
    /\ Called("electron_id", ElectronAddIdWeight(corrector, weights_container, wp, dup))

CallElectronReco(dup) ==
    /\ corrector.kind = "electron"
    /\ Called("electron_reco", ElectronAddRecoWeight(corrector, weights_container, dup))

CallMuonId(dup) ==
    /\ corrector.kind = "muon"
    /\ Called("muon_id", MuonAddIdWeight(corrector, weights_container, dup))

CallMuonIso(dup) ==
    /\ corrector.kind = "muon"
    /\ Called("muon_iso", MuonAddIsoWeight(corrector, weights_container, dup))

CallMuonTriggerIso(dup) ==
    /\ corrector.kind = "muon"
    /\ Called("muon_triggeriso", MuonAddTriggerIsoWeight(corrector, weights_container, dup))

\* another corrector of the same kind over the same collection and ledger,
\* with another variation mode
NewCorrector ==
    /\ pc = "idle"
    /\ ncalls < MaxCalls
    /\ \E v \in Variations :
          /\ v # corrector.variation
          /\ corrector' = [corrector EXCEPT !.variation = v]
    /\ UNCHANGED <<process_state, weights_container, ncalls, call, factors, lxplus>>

NextCorr ==
    \/ \E wp \in {electron_id_wp, "Tight"}, dup \in DuplicatePolicies : CallElectronId(wp, dup)
    \/ \E dup \in DuplicatePolicies : CallElectronReco(dup)
    \/ \E dup \in DuplicatePolicies : CallMuonId(dup)
    \/ \E dup \in DuplicatePolicies : CallMuonIso(dup)
    \/ \E dup \in DuplicatePolicies : CallMuonTriggerIso(dup)
    \/ NewCorrector

SpecCorr == InitCorr /\ [][NextCorr]_vars

\* ------------------------------------------------------ submit_lxplus.main
\* args["nsample"] as the command line gives it: empty, or a partition list
UserNSamples == {StrValue(""), StrValue("2,3")}

\* build_filesets(args): the partitions of the sample's file list, here
\* numbered file lists
Partitions(n) == [k \in 1..n |-> <<"root", k>>]

\* get_jobname(args): the fixed part of the name, then args["nsample"] when it
\* is set
get_jobname(a) == IF Truthy(a.nsample) THEN <<"ztoll_ele_sample", a.nsample>> ELSE <<"ztoll_ele_sample">>

\* get_command(args): the command line of the job, which carries args
get_command(a) == <<"python3 submit.py", a>>

InitSubmit ==
    /\ lepton_flavor = "ele"
    /\ muon_selection = [muon_id_wp |-> "tight", muon_iso_wp |-> "tight"]
    /\ nchunks = 0
    /\ features = <<>>
    /\ events = [ev |-> <<>>, is_mc |-> TRUE, fields |-> [HLT |-> {}, Flag |-> {}]]
    /\ pc = "idle"
    /\ trace = <<>>
    /\ err = "none"
    /\ good_leptons = <<>>
    /\ jets = <<>>
    /\ met = <<>>
    /\ bjets = <<>>
    /\ weights_container = WeightsNew(0)
    /\ lookups = <<>>
    /\ variables = <<>>
    /\ selections = <<>>
    /\ output = NoOutput
    /\ array_dict = <<>>
    /\ nevents_after = None
    /\ corrector = ElectronCorrector(<<>>, "nominal")
    /\ ncalls = 0
    /\ call = NoCall
    /\ factors = <<>>
    /\ args \in [nsample : UserNSamples]
    /\ root_files_list \in {Partitions(n) : n \in 0..MaxPartitions}
    /\ submit \in BOOLEAN
    /\ nsplit = 0
    /\ job = NoJob
    /\ condor = <<>>
    /\ lx_pc = "main"

others == <<process_state, weights_container, corrector, ncalls, call, factors>>

\* lines 125-129: one partition is one job of flavor "longlunch" built from
\* args as they are; otherwise the loop over range(1, len + 1) starts
Main ==
    /\ lx_pc = "main"
    /\ IF Len(root_files_list) = 1
       THEN /\ job' = [jobname |-> get_jobname(args), flavor |-> "longlunch", cmd |-> get_command(args)]
            /\ lx_pc' = "condor_file"
            /\ UNCHANGED nsplit
       ELSE /\ nsplit' = 1
            /\ lx_pc' = "loop"
            /\ UNCHANGED job
    /\ UNCHANGED <<others, args, root_files_list, submit, condor>>

\* lines 129-132: the next partition number becomes args["nsample"], or the
\* loop ends and main returns
Loop ==
    /\ lx_pc = "loop"
    /\ IF nsplit <= Len(root_files_list)
       THEN /\ args' = [args EXCEPT !.nsample = IntValue(nsplit)]
            /\ job' = [jobname |-> get_jobname(args'), flavor |-> "workday", cmd |-> get_command(args')]
            /\ lx_pc' = "condor_file"
       ELSE /\ lx_pc' = "returned"
            /\ UNCHANGED <<args, job>>
    /\ UNCHANGED <<others, root_files_list, submit, nsplit, condor>>

\* submit_condor, lines 61-90: the condor file of the job
BuildCondorFile ==
    /\ lx_pc = "condor_file"
    /\ condor' = Append(condor, [what |-> "sub", jobname |-> job.jobname, flavor |-> job.flavor, cmd |-> <<>>])
    /\ lx_pc' = "executable"
    /\ UNCHANGED <<others, args, root_files_list, submit, nsplit, job>>

\* submit_condor, lines 92-103: move_X509 raises RuntimeError when the proxy
\* cannot be parsed, else the executable file of the job is written
BuildExecutable ==
    /\ lx_pc = "executable"
    /\ \E proxy_ok \in BOOLEAN :
          IF proxy_ok
          THEN /\ condor' = Append(condor, [what |-> "sh", jobname |-> job.jobname, flavor |-> job.flavor, cmd |-> job.cmd])
               /\ lx_pc' = "submit"
          ELSE /\ lx_pc' = "raised"
               /\ UNCHANGED condor
    /\ UNCHANGED <<others, args, root_files_list, submit, nsplit, job>>

\* submit_condor returns to main: after the only job main returns, in the
\* loop the next partition follows
AfterJob ==
    /\ lx_pc' = IF Len(root_files_list) = 1 THEN "returned" ELSE "loop"
    /\ nsplit' = IF Len(root_files_list) = 1 THEN nsplit ELSE nsplit + 1

\* the job handed to condor_submit whatever submit is
SubmitJobAlways ==
    /\ lx_pc = "submit"
    /\ condor' = Append(condor, [what |-> "condor_submit", jobname |-> job.jobname, flavor |-> job.flavor, cmd |-> <<>>])
    /\ AfterJob
    /\ UNCHANGED <<others, args, root_files_list, submit, job>>

\* submit_condor, lines 105-108: condor_submit when submit is set
SubmitJob ==
    /\ lx_pc = "submit"
    /\ condor' = IF submit
                  THEN Append(condor, [what |-> "condor_submit", jobname |-> job.jobname, flavor |-> job.flavor, cmd |-> <<>>])
                  ELSE condor
    /\ AfterJob
    /\ UNCHANGED <<others, args, root_files_list, submit, job>>

NextSubmit ==
    \/ Main
    \/ Loop
    \/ BuildCondorFile
    \/ BuildExecutable
    \/ SubmitJob

SpecSubmit == InitSubmit /\ [][NextSubmit]_vars

\* ------------------------------------------------------------ the claims
InTrace(step) == \E k \in 1..Len(trace) : trace[k] = step

cut_names == regions(lepton_flavor)

\* event i passes the first k cuts of the configured region
PassesPrefix(i, k) == \A j \in 1..k : DictGet(selections, cut_names[j])[i]

PassesRegion(i) == PassesPrefix(i, Len(cut_names))

TightMuons == muon_selection = [muon_id_wp |-> "tight", muon_iso_wp |-> "tight"]

\* C1: process raises only for a simulated muon chunk whose muon working
\* points are not tight/tight, and then before any mask is registered (never
\* because the selection is empty); and when it returns for a chunk in which
\* no event passes all cuts of the region (a chunk of 0 events included), the
\* feature table is empty, events_before is the chunk's size and
\* events_after is 0.
C1_EmptySelection ==
    /\ (pc = "error" =>
            events.is_mc /\ lepton_flavor = "mu" /\ ~TightMuons /\ ~InTrace("masks"))
    /\ (pc = "done" /\ (\A i \in 1..nevents : ~PassesRegion(i)) =>
            /\ output.arrays = <<>>
            /\ output.events_before = nevents
            /\ output.events_after = 0)

C1_Witness ==
    /\ pc = "done"
    /\ nevents = 2
    /\ \A i \in 1..nevents : ~PassesRegion(i)
    /\ output.events_after = 0

\* C2: add_triggeriso_weight on a muon corrector whose id_wp or iso_wp is not
\* "tight" fails with the assertion error before any lookup and leaves the
\* ledger as it was before the call.
C2_TriggerIsoRejected ==
    (call.op = "muon_triggeriso" /\ ~(corrector.id_wp = "tight" /\ corrector.iso_wp = "tight")) =>
        /\ call.err = "AssertionError"
        /\ call.lookups = <<>>
        /\ weights_container = call.pre

C2_Witness ==
    /\ call.op = "muon_triggeriso"
    /\ corrector.id_wp = "loose"
    /\ call.err = "AssertionError"
    /\ call.pre.entries # <<>>
    /\ weights_container = call.pre

\* C3 (as claimed): when process raises a configuration error, no weight
\* factor has been registered in the chunk's ledger yet.
C3_Original == pc = "error" => weights_container.entries = <<>>

\* C3 (amended): a configuration error of process is raised by the muon
\* corrector during weight accumulation, at the first weight method that
\* lacks its scale factor: the kinematic corrections have been applied and
\* genweight, l1prefiring, pileup, pujetid and btag are already registered
\* (muon_id and muon_iso too when the trigger weight is the one rejected);
\* no metadata, mask, cutflow or feature has been produced.
C3_ErrorDuringWeights ==
    pc = "error" =>
        /\ err \in {"AssertionError", "UnboundLocalError"}
        /\ trace[Len(trace)] = "weights"
        /\ InTrace("met_phi_corrections")
        /\ {"genweight", "l1prefiring", "pileup", "pujetid", "btag"} \subseteq WeightNames(weights_container)
        /\ (AddWeightAllowed([id_wp |-> muon_selection.muon_id_wp, iso_wp |-> muon_selection.muon_iso_wp])
            /\ muon_selection.muon_iso_wp # "medium"
              => {"muon_id", "muon_iso"} \subseteq WeightNames(weights_container))
        /\ "muon_triggeriso" \notin WeightNames(weights_container)
        /\ output = NoOutput
        /\ selections = <<>>
        /\ features = <<>>

C3_Witness ==
    /\ pc = "error"
    /\ err = "AssertionError"
    /\ muon_selection = [muon_id_wp |-> "medium", muon_iso_wp |-> "tight"]
    /\ WeightNames(weights_container) = {"genweight", "l1prefiring", "pileup", "pujetid", "btag", "muon_id", "muon_iso"}

CutflowDone == pc \in {"features", "return", "done"}

\* the weight sums of the cutflow never increase from one cut to the next
Monotone(cf) == \A k \in 2..Len(cf) : cf[k].value <= cf[k - 1].value

\* C4 (as claimed): for every region and chunk the cutflow is monotonically
\* non-increasing.
C4_Original == CutflowDone => Monotone(output.cutflow)

\* C4 (amended): for every region and every chunk whose combined nominal
\* weight is non-negative for every event, the cutflow is monotonically
\* non-increasing.
C4_MonotoneNonNegative ==
    (CutflowDone /\ \A i \in 1..nevents : weights_container.w[i] >= 0) =>
        Monotone(output.cutflow)

C4_Witness ==
    /\ pc = "done"
    /\ events.is_mc
    /\ \A i \in 1..nevents : weights_container.w[i] > 0
    /\ output.cutflow[1].value > output.cutflow[Len(output.cutflow)].value
    /\ output.cutflow[Len(output.cutflow)].value > 0

\* C5: the cutflow holds one entry per cut of the region's list, in list
\* order, and the entry of the k-th cut is the sum of the combined nominal
\* weight over exactly the events that pass the first k cuts.
C5_CutflowPrefixSums ==
    CutflowDone =>
        /\ Len(output.cutflow) = Len(cut_names)
        /\ \A k \in 1..Len(cut_names) :
              /\ output.cutflow[k].name = cut_names[k]
              /\ output.cutflow[k].value =
                    SumSeq([i \in 1..nevents |->
                               IF PassesPrefix(i, k) THEN weights_container.w[i] ELSE 0])

C5_Witness ==
    /\ pc = "done"
    /\ nevents = 2
    /\ events.is_mc
    /\ output.cutflow[5].value # output.cutflow[6].value
    /\ output.cutflow[10].value # 0

\* the stage of the spec's state machine a step of process belongs to
PhaseRank(step) ==
    CASE step \in {"select_good_leptons", "select_good_bjets", "take_input_jets_met"} -> 1
      [] step \in {"jet_corrections", "met_phi_corrections"} -> 2
      [] step \in {"weights", "metadata"} -> 3
      [] step = "variables" -> 4
      [] step = "masks" -> 5
      [] step = "cutflow" -> 6
      [] step = "features" -> 7

\* C6 (as claimed): the stages object selection, kinematic correction, weight
\* accumulation, variable computation, mask registration, cutflow, feature
\* extraction run in this order, none started before the previous one is
\* complete: no step of an earlier stage runs after a step of a later stage.
C6_Original ==
    \A a \in 1..Len(trace) : \A b \in a..Len(trace) : PhaseRank(trace[a]) <= PhaseRank(trace[b])

\* the steps of process for the chunk, in the order of the code
StepOrder ==
    <<"select_good_leptons",
      IF events.is_mc THEN "jet_corrections" ELSE "take_input_jets_met",
      "select_good_bjets", "met_phi_corrections", "weights", "metadata",
      "variables", "masks", "cutflow", "features">>

\* the jets and the MET the rest of process must be working from
FinalJets(i) == IF events.is_mc THEN CorrectedJets(events.ev[i]) ELSE events.ev[i].Jet

FinalMET(i) ==
    met_phi_corrections(IF events.is_mc THEN PropagatedMET(events.ev[i]) ELSE events.ev[i].MET,
                        events.ev[i].npvsGood, events.is_mc)

\* C6 (amended): each call runs lepton selection, jet correction (simulation
\* only), b-jet selection, MET phi correction, weight accumulation, variable
\* computation, mask registration, cutflow, feature extraction in this order,
\* each at most once; the b-jet selection runs after the jet correction, on
\* the corrected jets, and the transverse mass and its mask are computed from
\* the corrected MET.
C6_StepOrder ==
    /\ Len(trace) <= Len(StepOrder)
    /\ trace = SubSeq(StepOrder, 1, Len(trace))
    /\ (InTrace("select_good_bjets") =>
            \A i \in 1..nevents :
                bjets[i] = FilterSeq(FinalJets(i), GoodBJetMask(FinalJets(i), good_leptons[i])))
    /\ (InTrace("variables") =>
            \A i \in 1..nevents :
                variables[i].mth # None =>
                    variables[i].mth = 2 * variables[i].ptll * FinalMET(i).pt * (1 - Cos4(FinalMET(i).phi)))
    /\ (InTrace("masks") =>
            \A i \in 1..nevents :
                /\ DictGet(selections, "bjet_veto")[i] = (bjets[i] = <<>>)
                /\ DictGet(selections, "mthlt60")[i] = (variables[i].mth # None /\ variables[i].mth < 3600))

C6_Witness ==
    /\ pc = "done"
    /\ events.is_mc
    /\ trace = StepOrder
    /\ \E i \in 1..nevents : bjets[i] # <<>> /\ events.ev[i].Jet[1].pt < 30
    /\ \E i \in 1..nevents : ~DictGet(selections, "mthlt60")[i] /\ variables[i].mth # None

\* C7 (as claimed): for a chunk of real data process applies no jet and no
\* MET correction (the jets and the MET it works from are the input values)
\* and registers no weight factor (the combined weight is 1 for every event).
C7_Original ==
    (~events.is_mc /\ InTrace("weights")) =>
        /\ ~InTrace("jet_corrections")
        /\ ~InTrace("met_phi_corrections")
        /\ \A i \in 1..nevents : jets[i] = events.ev[i].Jet /\ met[i] = events.ev[i].MET
        /\ weights_container.entries = <<>>
        /\ \A i \in 1..nevents : weights_container.w[i] = 1

\* C7 (amended): for a chunk of real data process applies no jet correction
\* (the jets are the input jets) and registers no weight factor (the combined
\* weight is 1 for every event); the MET phi correction is applied to data
\* as to simulation, to the input MET, with is_mc false.
C7_DataJetsAndWeights ==
    (~events.is_mc /\ InTrace("weights")) =>
        /\ ~InTrace("jet_corrections")
        /\ InTrace("met_phi_corrections")
        /\ \A i \in 1..nevents :
              /\ jets[i] = events.ev[i].Jet
              /\ met[i] = met_phi_corrections(events.ev[i].MET, events.ev[i].npvsGood, FALSE)
        /\ weights_container.entries = <<>>
        /\ \A i \in 1..nevents : weights_container.w[i] = 1

C7_Witness ==
    /\ pc = "done"
    /\ ~events.is_mc
    /\ nevents = 2
    /\ \E i \in 1..nevents : jets[i] # <<>> /\ jets[i] = events.ev[i].Jet
    /\ \E i \in 1..nevents : met[i] # events.ev[i].MET

VariantsOf(ls) == [k \in 1..Len(ls) |-> ls[k].variant]

\* C8: a weight method of ElectronCorrector or MuonCorrector that succeeds
\* registers exactly one factor, the one named after the method, and leaves
\* the other factors as they were; for variation "nominal" it makes exactly
\* three lookups (nominal, up, down) and registers the factor with up and
\* down variants, for any other variation exactly one lookup (nominal) and
\* no variants.
C8_OneFactorPerCall ==
    (call.op # "none" /\ call.err = "none") =>
        /\ WeightNames(weights_container) = WeightNames(call.pre) \cup {call.op}
        /\ \A n \in WeightNames(call.pre) \ {call.op} :
              DictGet(weights_container.entries, n) = DictGet(call.pre.entries, n)
        /\ IF call.variation = "nominal"
           THEN /\ VariantsOf(call.lookups) \in {ElectronVariants, MuonVariants}
                /\ DictGet(weights_container.entries, call.op).hasVar
                /\ Len(DictGet(weights_container.entries, call.op).up) = Len(weights_container.w)
                /\ Len(DictGet(weights_container.entries, call.op).down) = Len(weights_container.w)
           ELSE /\ VariantsOf(call.lookups) = <<"sf">>
                /\ ~DictGet(weights_container.entries, call.op).hasVar

C8_Witness ==
    /\ call.op = "muon_triggeriso"
    /\ call.err = "none"
    /\ call.variation = "JESUp"
    /\ Len(call.lookups) = 1
    /\ WeightNames(call.pre) = {"muon_id"}
    /\ WeightNames(weights_container) = {"muon_id", "muon_triggeriso"}
    /\ DictGet(weights_container.entries, "muon_id").hasVar

MasksDone == InTrace("masks")

\* C10 (as claimed): the trigger mask of a channel is true exactly when at
\* least one trigger bit listed for the channel is set, and the metfilters
\* mask is true exactly when every listed filter bit is set.
C10_Original ==
    MasksDone =>
        \A i \in 1..nevents :
            /\ \A ch \in {"ele", "mu"} :
                  DictGet(selections, IF ch = "ele" THEN "trigger_ele" ELSE "trigger_mu")[i]
                    <=> (\E k \in 1..Len(triggers(ch)) : triggers(ch)[k] \in events.ev[i].HLT)
            /\ DictGet(selections, "metfilters")[i]
                 <=> (\A k \in 1..Len(metfilters_cfg(IF events.is_mc THEN "mc" ELSE "data")) :
                         metfilters_cfg(IF events.is_mc THEN "mc" ELSE "data")[k] \in events.ev[i].Flag)

\* C10 (amended): the trigger mask of a channel is true exactly when at least
\* one trigger bit listed for the channel is carried by the chunk and set,
\* and the metfilters mask is true exactly when every listed filter bit that
\* the chunk carries is set (a listed filter bit the chunk lacks is skipped).
C10_TriggerOrFilterAnd ==
    MasksDone =>
        \A i \in 1..nevents :
            /\ \A ch \in {"ele", "mu"} :
                  DictGet(selections, IF ch = "ele" THEN "trigger_ele" ELSE "trigger_mu")[i]
                    <=> (\E k \in 1..Len(triggers(ch)) :
                            triggers(ch)[k] \in events.fields.HLT /\ triggers(ch)[k] \in events.ev[i].HLT)
            /\ DictGet(selections, "metfilters")[i]
                 <=> (\A k \in 1..Len(metfilters_cfg(IF events.is_mc THEN "mc" ELSE "data")) :
                         metfilters_cfg(IF events.is_mc THEN "mc" ELSE "data")[k] \in events.fields.Flag
                           => metfilters_cfg(IF events.is_mc THEN "mc" ELSE "data")[k] \in events.ev[i].Flag)

C10_Witness ==
    /\ pc = "done"
    /\ "BadPFMuonFilter" \notin events.fields.Flag
    /\ \E i \in 1..nevents : DictGet(selections, "metfilters")[i] /\ DictGet(selections, "trigger_mu")[i]
    /\ \E i \in 1..nevents : ~DictGet(selections, "trigger_ele")[i]

\* the generator weights a simulated event may carry
GenWeights == {0 - 1, 0, 2, 3}

\* the chunk with the generator weight of event i replaced by g[i]
Reweighted(chunk, g) ==
    [chunk EXCEPT !.ev = [i \in 1..Len(chunk.ev) |-> [chunk.ev[i] EXCEPT !.genWeight = g[i]]]]

AllZeroGenWeights == events.is_mc /\ \A i \in 1..nevents : events.ev[i].genWeight = 0

\* C11: for a simulated chunk whose generator weights are all zero, the
\* combined nominal weight of every event is 0, sumw and every cutflow entry
\* are 0, and events_before and events_after are those process reports for
\* the same chunk with any other generator weights.
C11_ZeroGenWeights ==
    (pc = "done" /\ AllZeroGenWeights) =>
        /\ \A i \in 1..nevents : weights_container.w[i] = 0
        /\ output.sumw = 0
        /\ \A k \in 1..Len(output.cutflow) : output.cutflow[k].value = 0
        /\ \A g \in [1..nevents -> GenWeights] :
              LET other == ProcessRecord(Reweighted(events, g), lepton_flavor, muon_selection, <<>>)
              IN /\ other.events_before = output.events_before
                 /\ other.events_after = output.events_after

C11_Witness ==
    /\ pc = "done"
    /\ AllZeroGenWeights
    /\ nevents = 2
    /\ output.events_before = 2
    /\ output.events_after = 1
    /\ Len(output.cutflow) = 10
    /\ \E i \in 1..nevents : DictGet(weights_container.entries, "pileup").nom[i] > 1

\* the arrays a feature table holds when it is not empty
TableNames == {FeatureNames[k] : k \in 1..Len(FeatureNames)} \cup {"weights"}

\* C12: in every record process returns, events_after is the number of
\* events of the chunk for which every mask of the region's cut list is
\* true, every array of the feature table has exactly events_after entries,
\* and a table for events_after > 0 holds the nine arrays ptl1, ptl2, ptll,
\* mll, dphill, drll, mth, nvtx and weights, one entry each.
C12_TableLengths ==
    pc = "done" =>
        /\ output.events_after = Cardinality({i \in 1..nevents : PassesRegion(i)})
        /\ \A k \in 1..Len(output.arrays) : Len(output.arrays[k].value) = output.events_after
        /\ (output.events_after > 0 =>
                /\ DictKeys(output.arrays) = TableNames
                /\ Len(output.arrays) = Cardinality(TableNames))

C12_Witness ==
    /\ pc = "done"
    /\ nevents = 2
    /\ output.events_after = 1
    /\ ~PassesRegion(1)
    /\ Len(output.arrays) = 9
    /\ Len(DictGet(output.arrays, "weights")) = 1

\* C13: whatever chunks the instance processed before, and in whatever
\* order, the record process returns for a chunk (or the error it raises) is
\* the one a newly constructed instance of the same configuration returns
\* for that chunk.
C13_NoCrossChunkState ==
    /\ (pc = "done" => output = ProcessRecord(events, lepton_flavor, muon_selection, <<>>))
    /\ (pc = "error" => ProcessRecord(events, lepton_flavor, muon_selection, <<>>) = [raised |-> err])

C13_Witness ==
    /\ pc = "done"
    /\ nchunks = 3
    /\ nevents = 2
    /\ output.events_after = 0
    /\ features # <<>>
    /\ features[1].name = "ptl1"
    /\ Len(features[1].value) = 1
    /\ output.arrays = <<>>

\* the lookup domain of each weight method: pt in PtLo..PtHi (thousandths
\* of a GeV) and, for the muon methods, |eta| in 0..EtaHi (thousandths)
PtLo(op) ==
    CASE op = "electron_id" -> 10000
      [] op = "electron_reco" -> 20100
      [] op \in {"muon_id", "muon_iso"} -> 15000
      [] op = "muon_triggeriso" -> 29000

PtHi(op) ==
    CASE op \in {"electron_id", "electron_reco"} -> 499999
      [] op \in {"muon_id", "muon_iso"} -> 119999
      [] op = "muon_triggeriso" -> 199999

EtaHi == 2399

IsMuonOp(op) == op \in {"muon_id", "muon_iso", "muon_triggeriso"}

\* the clamp of the method op, applied to the values of one collection
ClampOf(op, coll) ==
    CASE op = "electron_id" -> ElectronIdInputs(coll)
      [] op = "electron_reco" -> ElectronRecoInputs(coll)
      [] op \in {"muon_id", "muon_iso"} -> MuonIdIsoInputs(coll)
      [] op = "muon_triggeriso" -> MuonTriggerInputs(coll)

\* the values of lookup lk, as a collection of one event
PassedValues(lk) == << [k \in 1..Len(lk.pt) |-> [eta |-> lk.eta[k], pt |-> lk.pt[k]]] >>

\* C14: every lookup a weight method makes is handed one (eta, pt) pair per
\* lepton of the collection, with pt inside the method's domain (electron
\* ID [10.0, 499.999], electron reco [20.1, 499.999], muon ID/iso
\* [15.0, 119.999], muon trigger [29.0, 199.999]) and, for the muon methods,
\* |eta| inside [0.0, 2.399]; a pt (a muon |eta|) already inside the domain
\* is passed unchanged, an electron eta is always passed unchanged, and
\* clamping the passed values again yields the same values.
C14_ClampedInputs ==
    call.op # "none" =>
        \A l \in 1..Len(call.lookups) :
            LET lk == call.lookups[l]
                flat == Flatten(corrector.leptons)
            IN /\ Len(lk.pt) = Len(flat)
               /\ Len(lk.eta) = Len(flat)
               /\ \A k \in 1..Len(flat) :
                     /\ lk.pt[k] >= PtLo(call.op) /\ lk.pt[k] <= PtHi(call.op)
                     /\ (flat[k].pt >= PtLo(call.op) /\ flat[k].pt <= PtHi(call.op)
                            => lk.pt[k] = flat[k].pt)
                     /\ IF IsMuonOp(call.op)
                        THEN /\ lk.eta[k] >= 0 /\ lk.eta[k] <= EtaHi
                             /\ (Abs(flat[k].eta) <= EtaHi => lk.eta[k] = Abs(flat[k].eta))
                        ELSE lk.eta[k] = flat[k].eta
               /\ FlatPt(ClampOf(call.op, PassedValues(lk))) = lk.pt
               /\ FlatEta(ClampOf(call.op, PassedValues(lk))) = lk.eta

C14_Witness ==
    /\ call.op = "muon_id"
    /\ call.err = "none"
    /\ Len(call.lookups) = 3
    /\ call.lookups[1].pt = <<15000, 30000, 119999>>
    /\ call.lookups[1].eta = <<2399, 100, 0>>
    /\ FlatPt(corrector.leptons) = <<10000, 30000, 600000>>
    /\ FlatEta(corrector.leptons) = <<0 - 2600, 100, 0>>

\* the elementwise product of the nominal factors registered in ledger L
FactorProduct(L) ==
    [i \in 1..Len(L.w) |-> ProdSeq([k \in 1..Len(L.entries) |-> L.entries[k].value.nom[i]])]

AllRegistered == WeightNames(weights_container) = DictKeys(factors)

\* the ledger after the registrations F, made in the order of F
RECURSIVE Replay(_, _)
Replay(L, F) ==
    IF F = <<>> THEN L
    ELSE Replay(WeightsAdd(L, Head(F).name, Head(F).value.nom, Head(F).value.up, Head(F).value.down, Head(F).value.hasVar, "raise").weights, Tail(F))

\* C15: in whatever order the weight factors of process are registered, the
\* combined nominal weight is, after each registration, the elementwise
\* product of the nominal factors registered so far; once all are
\* registered it is the combined weight of the registrations made in the
\* order of process, and so are the metadata sumw, every cutflow entry and
\* the feature table.
C15_OrderIndependent ==
    pc = "ledger" =>
        /\ weights_container.w = FactorProduct(weights_container)
        /\ (AllRegistered =>
                LET inorder == Replay(WeightsNew(nevents), factors)
                    mine == ProcessRecordWith(events, lepton_flavor, <<>>, [weights |-> weights_container, err |-> "none"])
                    proc == ProcessRecordWith(events, lepton_flavor, <<>>, [weights |-> inorder, err |-> "none"])
                IN /\ weights_container.w = inorder.w
                   /\ mine.sumw = proc.sumw
                   /\ mine.cutflow = proc.cutflow
                   /\ mine.arrays = proc.arrays)

C15_Witness ==
    /\ pc = "ledger"
    /\ AllRegistered
    /\ nevents = 2
    /\ Len(weights_container.entries) = 8
    /\ weights_container.entries[1].name = "muon_triggeriso"
    /\ weights_container.entries[8].name = "genweight"
    /\ weights_container.entries # factors
    /\ weights_container.w[1] > 1
    /\ weights_container.w[2] < 0 - 1

\* C16: once the masks are registered, no name is held twice, each mask has
\* one entry per event and every name of the configured region's cut list is
\* registered, so the queries of the cutflow and of the region selection
\* find each name exactly once; process fails only with a muon working-point
\* error, and then before any mask is registered.
C16_MasksRegisteredOnce ==
    /\ (MasksDone =>
            /\ \A a \in 1..Len(selections) : \A b \in 1..Len(selections) :
                   selections[a].name = selections[b].name => a = b
            /\ \A a \in 1..Len(selections) : Len(selections[a].value) = nevents
            /\ \A k \in 1..Len(cut_names) : cut_names[k] \in DictKeys(selections)
            /\ \A k \in 1..Len(cut_names) : \A j \in 1..Len(cut_names) :
                   cut_names[k] = cut_names[j] => k = j)
    /\ (pc \in {"cutflow", "features", "return", "done"} => MasksDone /\ err = "none")
    /\ (pc = "error" => err \in {"AssertionError", "UnboundLocalError"} /\ ~MasksDone)

C16_Witness ==
    /\ pc = "done"
    /\ lepton_flavor = "mu"
    /\ nevents = 2
    /\ Len(selections) = 13
    /\ Len(output.cutflow) = 10
    /\ {"trigger_ele", "trigger_mu", "ee", "mumu", "emu"} \subseteq DictKeys(selections)
    /\ output.events_after = 2

\* the muon corrector of the last call, with isolation working point w
WithIso(w) == [corrector EXCEPT !.iso_wp = w, !.variation = call.variation]

Rejected(id_wp, iso_wp) == iso_wp = "tight" /\ id_wp = "loose"

\* C17 (as claimed): for every id_wp and iso_wp in {loose, medium, tight},
\* add_id_weight and add_iso_weight, called for a factor not registered yet,
\* fail with the configuration error and leave the ledger unchanged when
\* iso_wp is tight and id_wp is loose, and register exactly one factor,
\* named after the method, for every other combination; the outcome of
\* add_id_weight is the same for every iso_wp that is not rejected.
C17_Original ==
    (call.op \in {"muon_id", "muon_iso"} /\ call.op \notin WeightNames(call.pre)) =>
        /\ IF Rejected(corrector.id_wp, corrector.iso_wp)
           THEN /\ call.err = "AssertionError"
                /\ call.lookups = <<>>
                /\ weights_container = call.pre
           ELSE /\ call.err = "none"
                /\ WeightNames(weights_container) = WeightNames(call.pre) \cup {call.op}
                /\ Len(weights_container.entries) = Len(call.pre.entries) + 1
        /\ (call.op = "muon_id" =>
                \A w \in WorkingPoints :
                    (~Rejected(corrector.id_wp, w) /\ ~Rejected(corrector.id_wp, corrector.iso_wp)) =>
                        LET other == MuonAddIdWeight(WithIso(w), call.pre, "raise")
                        IN other.err = call.err /\ other.weights = weights_container)

\* add_id_weight on a corrector with the documented iso_wp "medium": the
\* call fails on the unassigned local iso_correction
C17_Witness ==
    /\ call.op = "muon_id"
    /\ call.op \notin WeightNames(call.pre)
    /\ corrector.id_wp = "tight"
    /\ corrector.iso_wp = "medium"
    /\ call.err = "UnboundLocalError"
    /\ call.lookups = <<>>
    /\ weights_container = call.pre

\* the entries of the condor log of one kind, in order
RECURSIVE Entries(_, _)
Entries(log, what) ==
    IF log = <<>> THEN <<>>
    ELSE IF Head(log).what = what THEN <<Head(log)>> \o Entries(Tail(log), what)
         ELSE Entries(Tail(log), what)

JobNames(es) == [k \in 1..Len(es) |-> es[k].jobname]

IsPrefix(a, b) == Len(a) <= Len(b) /\ a = SubSeq(b, 1, Len(a))

====
